---- MODULE Spec2Model ----
(***************************************************************************)
(* The CPE ingestion pipeline of src/utility: the streaming parsers        *)
(* (parser.py), the bulk upsert store and the Kafka emission (crud.py),    *)
(* the delivery reports of the producer (kafka_producer.py), the download  *)
(* retry policy (downloader.py), the run orchestration and the request     *)
(* handlers (endpoints.py, crud.record_stats).                             *)
(***************************************************************************)
EXTENDS Integers, Sequences, FiniteSets, TLC

VARIABLES
    variant,       \* parser: "xml" (flat cpe-item list) or "json" (CVE_Items tree)
    feed,          \* parser: the content of the feed file
    B,             \* parser: the batch_size argument
    pos,           \* parser: number of identifier entries consumed so far
    batch,         \* parser: the local list `batch`
    yielded,       \* parser: the batches yielded so far, in yield order
    ppc            \* parser: "run", "done" (generator exhausted), "error" (except branch taken)

VARIABLES
    store,         \* the documents of cpe_collection, in insertion order
    stats,         \* crud.stats, the process-wide counters
    events,        \* every message handed to the Kafka producer, in order
    unflushed,     \* number of produced messages not yet covered by a flush
    bulk_size,     \* the batch_size argument of bulk_create_or_update_cpes
    kafka_size     \* the batch_size argument of send_kafka_messages_in_batches

VARIABLES
    cpes,          \* call: the argument of the running bulk_create_or_update_cpes
    cidx,          \* call: number of records of cpes whose bulk write was awaited
    created_cpes,  \* call: the local list created_cpes
    updated_cpes,  \* call: the local list updated_cpes
    ksent,         \* call: <<created, updated>> records already produced to Kafka
    cpc            \* call: "idle", "bulk", "produce", "flush", "returned", "raised"

VARIABLES
    store0,        \* history: the store when the running call started
    stats0,        \* history: the stats when the running call started
    prev,          \* history: the call that ended last, [cpes, ok]
    written,       \* history: the records whose upsert the store applied, in order
    nfail,         \* history: number of bulk writes that raised since the last reset
    budget,        \* harness: records the store harness may still submit
    reapplied      \* harness: the last call started re-submitted the batch before it

VARIABLES
    pc,            \* run: "idle", "started", "downloading", "extracting", "processing", "done"
    attempt,       \* run: attempts of download_file made so far
    dl_log,        \* history: the outcome of every download attempt, in order
    waits,         \* history: the waits between the download attempts, in order
    failed_in,     \* history: the phase whose exception ended the run, or "none"
    nproc,         \* run: number of yielded batches the loop has processed
    semaphore      \* run: the free slots of the asyncio.Semaphore of the processing loop

VARIABLES
    reports,       \* history: the delivery report of every message served so far, in order
    broker         \* environment: "up" (every delivery succeeds) or "flaky"

VARIABLES
    requests       \* the POST requests whose background tasks have not all ended

VARIABLES
    tally          \* history: records classified created / updated and records of the
                   \* bulk operations that returned, since the last reset

parserVars == <<variant, feed, B, pos, batch, yielded, ppc>>

storeVars == <<store, stats, events, unflushed, bulk_size, kafka_size>>

callVars == <<cpes, cidx, created_cpes, updated_cpes, ksent, cpc>>

histVars == <<store0, stats0, prev, written, nfail, budget, reapplied>>

runVars == <<pc, attempt, dl_log, waits, failed_in, nproc, semaphore>>

kafkaVars == <<reports, broker>>

serveVars == <<requests>>

tallyVars == <<tally>>

vars == <<parserVars, storeVars, callVars, histVars, runVars, kafkaVars, serveVars, tallyVars>>

-----------------------------------------------------------------------------
(* Bounds of the model *)

\* longest feed: number of identifier entries (xml) / total weight of the tree (json)
MaxFeed ==
    3

\* largest batch_size handed to a parser, to the bulk writer or to the Kafka sender
MaxB ==
    2

\* store harness: total number of records submitted over all calls
MaxOps ==
    3

-----------------------------------------------------------------------------
(* Identifier strings and the CPE library *)

\* an absent attribute: elem.get("name") / match.get('cpe23Uri') returning None
None ==
    <<"None">>

\* the empty identifier string
EmptyUri ==
    <<>>

\* a string that is not a CPE name: CPE(...) raises
JunkUri ==
    <<"junk">>

\* the part values of a 2.3 formatted string: application, operating system,
\* hardware and the logical value ANY
Parts ==
    {"a", "o", "h", "*"}

\* cpe:2.3:<part>:acme:widget:1.0:*:*:*:*:*:*:*
Uri(part) ==
    <<"cpe", "2.3", part, "acme", "widget">>

\* CPE(cpe23Uri) succeeds
WellFormed(uri) ==
    /\ uri # None
    /\ Len(uri) = 5
    /\ uri[1] = "cpe"
    /\ uri[2] = "2.3"
    /\ uri[3] \in Parts

\* cpe_obj.get_part()[0]
get_part(uri) ==
    uri[3]

\* cpe_obj.as_fs(): the formatted-string binding of the parsed name
as_fs(uri) ==
    <<"cpe:2.3", get_part(uri), uri[4], uri[5]>>

\* a slip of the chain: the hardware branch is missing
cpe_type_NoHardware(uri) ==
    IF get_part(uri) = "a" THEN "software"
    ELSE IF get_part(uri) = "o" THEN "operating_system"
    ELSE "other"

\* the conditional expression at parser.py:37-42 and 103-108
cpe_type(uri) ==
    IF get_part(uri) = "a" THEN "software"
    ELSE IF get_part(uri) = "o" THEN "operating_system"
    ELSE IF get_part(uri) = "h" THEN "hardware"
    ELSE "other"

\* CPECreate(...): the record built from a parsed identifier; cpe_id is the
\* default_factory value, fresh for every constructed object
CPECreate(uri, id) ==
    [cpe_name |-> as_fs(uri), type |-> cpe_type(uri), part |-> get_part(uri), cpe_id |-> id]

-----------------------------------------------------------------------------
(* Feed files *)

\* a cpe-item element without a cpe23:cpe23-item child
NoCpe23Item ==
    [cpe23_item |-> FALSE, name |-> None]

UriValues ==
    {None, EmptyUri, JunkUri} \cup {Uri(p) : p \in Parts}

\* the cpe-item elements of the XML dictionary
XmlItems ==
    {NoCpe23Item} \cup {[cpe23_item |-> TRUE, name |-> u] : u \in UriValues}

\* the cpe_match objects of the CVE JSON feed
JsonMatches ==
    {[cpe23Uri |-> u] : u \in {None, EmptyUri, JunkUri, Uri("a"), Uri("o")}}

SeqsUpTo(S, n) ==
    UNION {[1..k -> S] : k \in 0..n}

XmlFeeds ==
    SeqsUpTo(XmlItems, MaxFeed)

\* nodes (lists of cpe_match) of weight w; an empty list weighs 1
NodesOfWeight(w) ==
    IF w = 1 THEN {<<>>} \cup [1..1 -> JsonMatches] ELSE [1..w -> JsonMatches]

RECURSIVE NodeSeqs(_)
\* sequences of nodes of total weight w
NodeSeqs(w) ==
    IF w = 0 THEN {<<>>}
    ELSE UNION {{<<n>> \o s : n \in NodesOfWeight(k), s \in NodeSeqs(w - k)} : k \in 1..w}

\* CVE items (lists of nodes) of weight w; an item without nodes weighs 1
ItemsOfWeight(w) ==
    IF w = 1 THEN {<<>>} \cup NodeSeqs(1) ELSE NodeSeqs(w)

RECURSIVE ItemSeqs(_)
\* sequences of CVE items of total weight w
ItemSeqs(w) ==
    IF w = 0 THEN {<<>>}
    ELSE UNION {{<<i>> \o s : i \in ItemsOfWeight(k), s \in ItemSeqs(w - k)} : k \in 1..w}

JsonFeeds ==
    UNION {ItemSeqs(w) : w \in 0..MaxFeed}

RECURSIVE Flatten(_)
Flatten(ss) ==
    IF ss = <<>> THEN <<>> ELSE Head(ss) \o Flatten(Tail(ss))

\* the identifier values in the order the loops of the parser visit them:
\* for event, elem in context (xml); for cve_item / for node / for match (json)
Entries(v, f) ==
    IF v = "xml"
    THEN [i \in 1..Len(f) |-> IF f[i].cpe23_item THEN f[i].name ELSE None]
    ELSE LET ms == Flatten(Flatten(f)) IN [i \in 1..Len(ms) |-> ms[i].cpe23Uri]

\* `if not cpe23Uri: continue` and the except branch around CPE(cpe23Uri)
Skipped(uri) ==
    \/ uri = None
    \/ uri = EmptyUri
    \/ ~WellFormed(uri)

\* a slip of the comparison: the batch is yielded one record late
BatchFull_Late(b, size) ==
    Len(b) > size

\* `if len(batch) >= batch_size`
BatchFull(b, size) ==
    Len(b) >= size

-----------------------------------------------------------------------------
(* The store, the counters and the Kafka producer: crud.py *)

\* the dict literal of crud.py:22-28 and of reset_stats
InitialStats ==
    [inserted |-> 0, updated |-> 0, errors |-> 0, last_called |-> None, durations |-> None]

\* the key the except branches of execute_bulk_write increment (crud.py:83, 86)
ErrorKey ==
    "error"

\* stats[key] += 1 raises KeyError when the dict has no such key
KeyError(d, key) ==
    key \notin DOMAIN d

\* some document has this cpe_name: the filter {"cpe_name": cpe.cpe_name} matches
Matches(st, name) ==
    \E i \in 1..Len(st) : st[i].cpe_name = name

\* a slip of the write: an existing document is left as it is ($setOnInsert)
UpdateOne_KeepOld(st, cpe) ==
    IF Matches(st, cpe.cpe_name)
    THEN [store |-> st, upserted |-> FALSE]
    ELSE [store |-> Append(st, cpe), upserted |-> TRUE]

\* a slip of the write: every operation inserts a new document
UpdateOne_Insert(st, cpe) ==
    [store |-> Append(st, cpe), upserted |-> TRUE]

\* UpdateOne(filter, {"$set": cpe.dict()}, upsert=True) applied by the server:
\* the first matching document is overwritten, or a new one is inserted
UpdateOne(st, cpe) ==
    IF Matches(st, cpe.cpe_name)
    THEN LET i == CHOOSE j \in 1..Len(st) :
                    /\ st[j].cpe_name = cpe.cpe_name
                    /\ \A k \in 1..(j - 1) : st[k].cpe_name # cpe.cpe_name
         IN  [store |-> [st EXCEPT ![i] = cpe], upserted |-> FALSE]
    ELSE [store |-> Append(st, cpe), upserted |-> TRUE]

RECURSIVE bulk_write(_, _, _)
\* cpe_collection.bulk_write(operations), ordered: the first k operations
\* applied in order; upserted_ids is keyed by the 0-based operation index
bulk_write(st, ops, k) ==
    IF k = 0
    THEN [store |-> st, upserted_ids |-> {}, matched_count |-> 0]
    ELSE LET r == bulk_write(st, ops, k - 1)
             u == UpdateOne(r.store, ops[k])
         IN  [store |-> u.store,
              upserted_ids |-> IF u.upserted THEN r.upserted_ids \cup {k - 1}
                               ELSE r.upserted_ids,
              matched_count |-> IF u.upserted THEN r.matched_count
                                ELSE r.matched_count + 1]

\* what the server did with each applied operation: the document was
\* created ("cpe.extract.created") or overwritten ("cpe.extract.updated")
Outcomes(ops, upserted_ids) ==
    [i \in 1..Len(ops) |->
        [topic |-> IF (i - 1) \in upserted_ids THEN "cpe.extract.created"
                   ELSE "cpe.extract.updated",
         key |-> ops[i].cpe_name,
         value |-> ops[i]]]

\* the elements of s at the positions in the set I, in order
Pick(s, I) ==
    LET ix == SelectSeq([i \in 1..Len(s) |-> i], LAMBDA i : i \in I)
    IN  [k \in 1..Len(ix) |-> s[ix[k]]]

\* a slip of the loop: the index counted from 1 (enumerate(cpe_objects, 1))
Classify_FromOne(objs, upserted_ids) ==
    [created |-> Pick(objs, {i \in 1..Len(objs) : i \in upserted_ids}),
     updated |-> Pick(objs, {i \in 1..Len(objs) : i \notin upserted_ids})]

\* a slip of the loop: every record is appended to created_cpes
Classify_AllCreated(objs, upserted_ids) ==
    [created |-> objs, updated |-> <<>>]

\* `for i, cpe in enumerate(cpe_objects): if i in result.upserted_ids`
Classify(objs, upserted_ids) ==
    [created |-> Pick(objs, {i \in 1..Len(objs) : (i - 1) \in upserted_ids}),
     updated |-> Pick(objs, {i \in 1..Len(objs) : (i - 1) \notin upserted_ids})]

\* the list `operations` when the loop of bulk_create_or_update_cpes
\* reaches its next execute_bulk_write: one UpdateOne per record, in order
NextOps ==
    LET hi == IF cidx + bulk_size < Len(cpes) THEN cidx + bulk_size ELSE Len(cpes)
    IN  SubSeq(cpes, cidx + 1, hi)

\* a slip of the loop: cpe_objects is not emptied after a bulk write
cpe_objects_NotReset ==
    SubSeq(cpes, 1, cidx + Len(NextOps))

\* the list `cpe_objects` at that point: emptied together with `operations`
cpe_objects ==
    NextOps

\* producer.add_message(topic, key=str(cpe.cpe_name), value=cpe.json())
add_message(log, topic, cpe) ==
    Append(log, [topic |-> topic, key |-> cpe.cpe_name, value |-> cpe])

RECURSIVE add_messages(_, _, _)
\* `for cpe in batch: producer.add_message(...)`
add_messages(log, topic, cs) ==
    IF cs = <<>> THEN log
    ELSE add_messages(add_message(log, topic, Head(cs)), topic, Tail(cs))

\* the slice [i:i + batch_size] of a list, i 0-based
Slice(s, i, size) ==
    SubSeq(s, i + 1, IF i + size < Len(s) THEN i + size ELSE Len(s))

\* semaphore = asyncio.Semaphore(10)
SemaphoreValue ==
    10

\* no run of update_cpes / update_recent_cpes is under way
RunIdle ==
    /\ pc = "idle"
    /\ attempt = 0
    /\ dl_log = <<>>
    /\ waits = <<>>
    /\ failed_in = "none"
    /\ nproc = 0
    /\ semaphore = SemaphoreValue
    /\ requests = <<>>

\* nothing classified and no bulk operation returned yet
ZeroTally ==
    [created |-> 0, updated |-> 0, ok |-> 0]

StoreStart ==
    /\ stats = InitialStats
    /\ tally = ZeroTally
    /\ events = <<>>
    /\ unflushed = 0
    /\ reports = <<>>
    /\ cpes = <<>>
    /\ cidx = 0
    /\ created_cpes = <<>>
    /\ updated_cpes = <<>>
    /\ ksent = <<0, 0>>
    /\ cpc = "idle"
    /\ store0 = <<>>
    /\ stats0 = InitialStats
    /\ prev = [cpes |-> <<>>, ok |-> FALSE]
    /\ written = <<>>
    /\ nfail = 0

\* bulk_create_or_update_cpes(cpes) is entered
CallStart(c) ==
    /\ cpc = "idle"
    /\ cpes' = c
    /\ cidx' = 0
    /\ created_cpes' = <<>>
    /\ updated_cpes' = <<>>
    /\ ksent' = <<0, 0>>
    /\ cpc' = IF c = <<>> THEN "returned" ELSE "bulk"
    /\ store0' = store
    /\ stats0' = stats

\* execute_bulk_write returns normally: the result is correlated with
\* cpe_objects and the counters are raised
BulkWriteOk ==
    /\ cpc = "bulk"
    /\ LET ops == NextOps
           r == bulk_write(store, ops, Len(ops))
           c == Classify(cpe_objects, r.upserted_ids)
       IN  /\ store' = r.store
           /\ created_cpes' = created_cpes \o c.created
           /\ updated_cpes' = updated_cpes \o c.updated
           /\ stats' = [stats EXCEPT !.inserted = @ + Cardinality(r.upserted_ids),
                                     !.updated = @ + r.matched_count]
           /\ written' = written \o Outcomes(ops, r.upserted_ids)
           /\ tally' = [created |-> tally.created + Len(c.created),
                         updated |-> tally.updated + Len(c.updated),
                         ok |-> tally.ok + Len(ops)]
           /\ cidx' = cidx + Len(ops)
           /\ cpc' = IF cidx + Len(ops) = Len(cpes)
                     THEN (IF created_cpes \o c.created = <<>> /\ updated_cpes \o c.updated = <<>>
                           THEN "returned" ELSE "produce")
                     ELSE "bulk"
    /\ UNCHANGED <<events, unflushed, bulk_size, kafka_size, cpes, ksent>>
    /\ UNCHANGED <<store0, stats0, prev, nfail, budget, reapplied>>
    /\ UNCHANGED parserVars
    /\ UNCHANGED runVars
    /\ UNCHANGED <<kafkaVars, serveVars>>

\* bulk_write raises after the server applied the first k operations
\* (BulkWriteError: k short of all; any other exception: any k); the except
\* branch logs and executes stats['error'] += 1
BulkWriteRaises ==
    /\ cpc = "bulk"
    /\ \E k \in 0..Len(NextOps) :
          LET r == bulk_write(store, NextOps, k)
          IN  /\ store' = r.store
              /\ written' = written \o Outcomes(SubSeq(NextOps, 1, k), r.upserted_ids)
    /\ nfail' = nfail + 1
    /\ IF KeyError(stats, ErrorKey)
       THEN /\ cpc' = "raised"
            /\ UNCHANGED <<stats, cidx>>
       ELSE /\ stats' = [stats EXCEPT ![ErrorKey] = @ + 1]
            /\ cidx' = cidx + Len(NextOps)
            /\ cpc' = IF cidx + Len(NextOps) = Len(cpes)
                      THEN (IF created_cpes = <<>> /\ updated_cpes = <<>>
                            THEN "returned" ELSE "produce")
                      ELSE "bulk"
    /\ UNCHANGED <<events, unflushed, bulk_size, kafka_size>>
    /\ UNCHANGED <<cpes, created_cpes, updated_cpes, ksent>>
    /\ UNCHANGED <<store0, stats0, prev, budget, reapplied>>
    /\ UNCHANGED parserVars
    /\ UNCHANGED runVars
    /\ UNCHANGED <<kafkaVars, serveVars, tallyVars>>

\* send_kafka_messages_in_batches: the messages of the next sub-batch are
\* produced, the created list first, then the updated list
KafkaProduce ==
    /\ cpc = "produce"
    /\ IF ksent[1] < Len(created_cpes)
       THEN LET b == Slice(created_cpes, ksent[1], kafka_size)
            IN  /\ events' = add_messages(events, "cpe.extract.created", b)
                /\ unflushed' = unflushed + Len(b)
                /\ ksent' = <<ksent[1] + Len(b), ksent[2]>>
       ELSE LET b == Slice(updated_cpes, ksent[2], kafka_size)
            IN  /\ events' = add_messages(events, "cpe.extract.updated", b)
                /\ unflushed' = unflushed + Len(b)
                /\ ksent' = <<ksent[1], ksent[2] + Len(b)>>
    /\ cpc' = "flush"
    /\ UNCHANGED <<store, stats, bulk_size, kafka_size>>
    /\ UNCHANGED <<cpes, cidx, created_cpes, updated_cpes>>
    /\ UNCHANGED histVars
    /\ UNCHANGED parserVars
    /\ UNCHANGED runVars
    /\ UNCHANGED <<kafkaVars, serveVars, tallyVars>>

\* what the broker answers for n queued messages: the err argument of each
\* delivery report, None ("ok") or an error ("err")
ReportSeqs(n) ==
    [1..n -> IF broker = "up" THEN {"ok"} ELSE {"ok", "err"}]

RECURSIVE UpToError(_)
\* the reports up to and including the first error
UpToError(rs) ==
    IF rs = <<>> THEN <<>>
    ELSE IF Head(rs) = "err" THEN <<"err">>
    ELSE <<Head(rs)>> \o UpToError(Tail(rs))

\* a slip of the callback: after a failed delivery the reports of the other
\* messages are lost
delivery_report_StopAtError(log, rs) ==
    log \o UpToError(rs)

\* KafkaProducer.delivery_report(err, msg), the callback of every message
\* served: an error is logged, nothing else happens
delivery_report(log, rs) ==
    log \o rs

\* a slip of the barrier: the flush does not wait (flush(0))
KafkaFlush_NoWait ==
    /\ cpc = "flush"
    /\ UNCHANGED <<reports, unflushed>>
    /\ cpc' = IF ksent[1] = Len(created_cpes) /\ ksent[2] = Len(updated_cpes)
              THEN "returned" ELSE "produce"
    /\ UNCHANGED <<store, stats, events, bulk_size, kafka_size>>
    /\ UNCHANGED <<cpes, cidx, created_cpes, updated_cpes, ksent>>
    /\ UNCHANGED histVars
    /\ UNCHANGED parserVars
    /\ UNCHANGED runVars
    /\ UNCHANGED <<broker, serveVars, tallyVars>>

\* `await asyncio.to_thread(producer.flush)` returns: flush() has waited for
\* the report of every queued message; after the last sub-batch the call
\* returns
KafkaFlush ==
    /\ cpc = "flush"
    /\ \E rs \in ReportSeqs(unflushed) : reports' = delivery_report(reports, rs)
    /\ unflushed' = 0
    /\ cpc' = IF ksent[1] = Len(created_cpes) /\ ksent[2] = Len(updated_cpes)
              THEN "returned" ELSE "produce"
    /\ UNCHANGED <<store, stats, events, bulk_size, kafka_size>>
    /\ UNCHANGED <<cpes, cidx, created_cpes, updated_cpes, ksent>>
    /\ UNCHANGED histVars
    /\ UNCHANGED parserVars
    /\ UNCHANGED runVars
    /\ UNCHANGED <<broker, serveVars, tallyVars>>

\* the producer raises (queue full, broker unreachable at flush): the
\* exception leaves bulk_create_or_update_cpes
KafkaRaises ==
    /\ cpc \in {"produce", "flush"}
    /\ cpc' = "raised"
    /\ UNCHANGED <<store, stats, events, unflushed, bulk_size, kafka_size>>
    /\ UNCHANGED <<cpes, cidx, created_cpes, updated_cpes, ksent>>
    /\ UNCHANGED histVars
    /\ UNCHANGED parserVars
    /\ UNCHANGED runVars
    /\ UNCHANGED <<kafkaVars, serveVars, tallyVars>>

CallNext ==
    \/ BulkWriteOk
    \/ BulkWriteRaises
    \/ KafkaProduce
    \/ KafkaFlush
    \/ KafkaRaises

-----------------------------------------------------------------------------
(* The store under a sequence of calls of bulk_create_or_update_cpes *)

\* the records submitted to the store: two names, one of them with two
\* different cpe_id values
StoreRecords ==
    {CPECreate(Uri("a"), 1), CPECreate(Uri("a"), 2), CPECreate(Uri("o"), 1)}

StoreInit ==
    /\ StoreStart
    /\ store = <<>>
    /\ bulk_size \in 1..MaxB
    /\ kafka_size \in 1..MaxB
    /\ budget = MaxOps
    /\ reapplied = FALSE
    /\ broker = "up"
    /\ variant = "xml"
    /\ feed = <<>>
    /\ B = 1
    /\ pos = 0
    /\ batch = <<>>
    /\ yielded = <<>>
    /\ ppc = "done"
    /\ RunIdle

\* a caller awaits bulk_create_or_update_cpes(c)
Apply ==
    /\ ~reapplied
    /\ \E n \in 1..budget : \E c \in [1..n -> StoreRecords] :
          /\ CallStart(c)
          /\ budget' = budget - n
    /\ reapplied' = FALSE
    /\ UNCHANGED <<storeVars, prev, written, nfail>>
    /\ UNCHANGED parserVars
    /\ UNCHANGED runVars
    /\ UNCHANGED <<kafkaVars, serveVars, tallyVars>>

\* the last caller awaits bulk_create_or_update_cpes again with the batch of
\* the call that has just returned
Reapply ==
    /\ prev.ok
    /\ ~reapplied
    /\ CallStart(prev.cpes)
    /\ reapplied' = TRUE
    /\ UNCHANGED <<storeVars, prev, written, nfail, budget>>
    /\ UNCHANGED parserVars
    /\ UNCHANGED runVars
    /\ UNCHANGED <<kafkaVars, serveVars, tallyVars>>

\* the call has returned or raised; the caller goes on
CallEnd ==
    /\ cpc \in {"returned", "raised"}
    /\ prev' = [cpes |-> cpes, ok |-> cpc = "returned"]
    /\ cpc' = "idle"
    /\ UNCHANGED <<storeVars, cpes, cidx, created_cpes, updated_cpes, ksent>>
    /\ UNCHANGED <<store0, stats0, written, nfail, budget, reapplied>>
    /\ UNCHANGED parserVars
    /\ UNCHANGED runVars
    /\ UNCHANGED <<kafkaVars, serveVars, tallyVars>>

StoreNext ==
    \/ Apply
    \/ Reapply
    \/ CallNext
    \/ CallEnd

SpecStore ==
    StoreInit /\ [][StoreNext]_vars

-----------------------------------------------------------------------------
(* The streaming parsers: parse_xml_in_batches and *)
(* parse_cpes_from_cve_json_in_batches share this loop *)

\* the fresh cpe_id of the record built from the entry at position p
NewId(p) ==
    p

ParserStart ==
    /\ variant \in {"xml", "json"}
    /\ feed \in IF variant = "xml" THEN XmlFeeds ELSE JsonFeeds
    /\ B \in 1..MaxB
    /\ pos = 0
    /\ batch = <<>>
    /\ yielded = <<>>
    /\ ppc = "run"

\* a slip of the loop: a skipped entry leaves the loop (break for continue)
ParseEntry_BreakOnSkip ==
    /\ ppc = "run"
    /\ pos < Len(Entries(variant, feed))
    /\ pos' = pos + 1
    /\ LET uri == Entries(variant, feed)[pos + 1]
           b2 == Append(batch, CPECreate(uri, NewId(pos + 1)))
       IN  IF Skipped(uri)
           THEN /\ yielded' = IF batch # <<>> THEN Append(yielded, batch) ELSE yielded
                /\ batch' = <<>>
                /\ ppc' = "done"
           ELSE /\ ppc' = ppc
                /\ IF BatchFull(b2, B)
                   THEN /\ yielded' = Append(yielded, b2)
                        /\ batch' = <<>>
                   ELSE /\ batch' = b2
                        /\ UNCHANGED yielded
    /\ UNCHANGED <<variant, feed, B>>
    /\ UNCHANGED <<storeVars, callVars, histVars>>
    /\ UNCHANGED runVars
    /\ UNCHANGED <<kafkaVars, serveVars, tallyVars>>

\* one iteration of the loop body, up to and including the yield
ParseEntry ==
    /\ ppc = "run"
    /\ pos < Len(Entries(variant, feed))
    /\ pos' = pos + 1
    /\ LET uri == Entries(variant, feed)[pos + 1]
           b2 == Append(batch, CPECreate(uri, NewId(pos + 1)))
       IN  IF Skipped(uri)
           THEN UNCHANGED <<batch, yielded>>
           ELSE IF BatchFull(b2, B)
                THEN /\ yielded' = Append(yielded, b2)
                     /\ batch' = <<>>
                ELSE /\ batch' = b2
                     /\ UNCHANGED yielded
    /\ UNCHANGED <<variant, feed, B, ppc>>
    /\ UNCHANGED <<storeVars, callVars, histVars>>
    /\ UNCHANGED runVars
    /\ UNCHANGED <<kafkaVars, serveVars, tallyVars>>

\* the loop ends: `if batch: yield batch`
ParseEnd ==
    /\ ppc = "run"
    /\ pos = Len(Entries(variant, feed))
    /\ yielded' = IF batch # <<>> THEN Append(yielded, batch) ELSE yielded
    /\ batch' = <<>>
    /\ ppc' = "done"
    /\ UNCHANGED <<variant, feed, B, pos>>
    /\ UNCHANGED <<storeVars, callVars, histVars>>
    /\ UNCHANGED runVars
    /\ UNCHANGED <<kafkaVars, serveVars, tallyVars>>

\* the reader raises while streaming (file missing, malformed or truncated):
\* `except Exception` logs and the generator ends; the local batch is dropped
ParseError ==
    /\ ppc = "run"
    /\ ppc' = "error"
    /\ batch' = <<>>
    /\ UNCHANGED <<variant, feed, B, pos, yielded>>
    /\ UNCHANGED <<storeVars, callVars, histVars>>
    /\ UNCHANGED runVars
    /\ UNCHANGED <<kafkaVars, serveVars, tallyVars>>

ParseNext ==
    \/ ParseEntry
    \/ ParseEnd
    \/ ParseError

\* longest feed of the flat feeds below
MaxEntries ==
    2

\* flat feeds that carry every identifier value: cpe-item elements with a
\* cpe23-item child (xml), the matches of one node of one CVE item (json)
FlatFeeds(v) ==
    IF v = "xml"
    THEN SeqsUpTo({[cpe23_item |-> TRUE, name |-> u] : u \in UriValues}, MaxEntries)
    ELSE {<< <<ms>> >> : ms \in SeqsUpTo({[cpe23Uri |-> u] : u \in UriValues}, MaxEntries)}

\* the parsers alone, on the flat feeds
FlatInit ==
    /\ variant \in {"xml", "json"}
    /\ feed \in FlatFeeds(variant)
    /\ B \in 1..MaxB
    /\ pos = 0
    /\ batch = <<>>
    /\ yielded = <<>>
    /\ ppc = "run"
    /\ StoreStart
    /\ store = <<>>
    /\ bulk_size = 1
    /\ kafka_size = 1
    /\ budget = 0
    /\ reapplied = FALSE
    /\ broker = "up"
    /\ RunIdle

SpecFlat ==
    FlatInit /\ [][ParseNext]_vars

\* the parsers alone, on every feed within the bounds
ParserInit ==
    /\ ParserStart
    /\ StoreStart
    /\ store = <<>>
    /\ bulk_size = 1
    /\ kafka_size = 1
    /\ budget = 0
    /\ reapplied = FALSE
    /\ broker = "up"
    /\ RunIdle

SpecParse ==
    ParserInit /\ [][ParseNext]_vars

-----------------------------------------------------------------------------
(* A run: update_recent_cpes under record_stats (endpoints.py:109-126); *)
(* update_cpes (endpoints.py:66-83) has the same body *)

\* stop=stop_after_attempt(5)
MaxAttempts ==
    5

\* wait_exponential(multiplier=1, min=4, max=10)
WaitMultiplier ==
    1

WaitMin ==
    4

WaitMax ==
    10

RECURSIVE Pow2(_)
Pow2(n) ==
    IF n = 0 THEN 1 ELSE 2 * Pow2(n - 1)

Min2(a, b) ==
    IF a < b THEN a ELSE b

Max2(a, b) ==
    IF a > b THEN a ELSE b

\* a slip of the policy: the minimum taken as the base delay that doubles
wait_exponential_FromMin(n) ==
    Min2(WaitMin * Pow2(n - 1), WaitMax)

\* tenacity's wait_exponential after attempt number n:
\* max(min, min(multiplier * 2 ** (n - 1), max))
wait_exponential(n) ==
    Max2(WaitMin, Min2(WaitMultiplier * Pow2(n - 1), WaitMax))

\* a slip of the comparison: one attempt more is made
stop_after_More(n) ==
    n > MaxAttempts

\* stop_after_attempt(5): no further attempt once n attempts were made
stop_after_attempt(n) ==
    n >= MaxAttempts

\* a slip of the predicate: every exception is retried
retry_if_Any(outcome) ==
    outcome # "ok"

\* retry=retry_if_exception_type(aiohttp.ClientError)
retry_if_exception_type(outcome) ==
    outcome = "ClientError"

\* what one attempt of download_file ends with: the file written, an
\* aiohttp.ClientError (logged and re-raised), any other exception
DownloadOutcomes ==
    {"ok", "ClientError", "Exception"}

\* the matches of the feed of a run
RunMatches ==
    {[cpe23Uri |-> u] : u \in {EmptyUri, Uri("a"), Uri("o")}}

\* the feed files of a run: the matches of one node of one CVE item
RunFeeds ==
    {<<>>} \cup {<< <<ms>> >> : ms \in SeqsUpTo(RunMatches, MaxFeed)}

\* a run calls with the default sizes: batches of 2000 records, bulk
\* operations of 1000, Kafka sub-batches of 100; the model keeps their order
RunInit ==
    /\ variant = "json"
    /\ feed \in RunFeeds
    /\ B \in 1..MaxB
    /\ pos = 0
    /\ batch = <<>>
    /\ yielded = <<>>
    /\ ppc = "run"
    /\ StoreStart
    /\ store \in {<<>>, <<CPECreate(Uri("a"), 0)>>}
    /\ bulk_size \in 1..B
    /\ kafka_size \in 1..bulk_size
    /\ budget = 0
    /\ reapplied = FALSE
    /\ broker \in {"up", "flaky"}
    /\ RunIdle

\* a slip of the wrapper: the exception is logged and raised again
RunEnds_Reraise(phase) ==
    /\ failed_in' = phase
    /\ IF phase = "none"
       THEN /\ pc' = "done"
            /\ stats' = [stats EXCEPT !.last_called = <<"start time">>,
                                      !.durations = <<"duration">>]
       ELSE /\ pc' = "crashed"
            /\ UNCHANGED stats

\* the tail of record_stats.wrapper: the exception, if any, is logged and
\* the start time and the duration are written into stats
RunEnds(phase) ==
    /\ pc' = "done"
    /\ failed_in' = phase
    /\ stats' = [stats EXCEPT !.last_called = <<"start time">>,
                              !.durations = <<"duration">>]

\* the background task starts: record_stats.wrapper takes the start time
\* and awaits the function
RunStart ==
    /\ pc = "idle"
    /\ pc' = "started"
    /\ UNCHANGED <<attempt, dl_log, waits, failed_in, nproc, semaphore>>
    /\ UNCHANGED <<parserVars, storeVars, callVars, histVars>>
    /\ UNCHANGED <<kafkaVars, serveVars, tallyVars>>

\* download_and_extract: await reset_stats()
reset_stats ==
    /\ pc = "started"
    /\ stats' = InitialStats
    /\ nfail' = 0
    /\ tally' = ZeroTally
    /\ pc' = "downloading"
    /\ UNCHANGED <<attempt, dl_log, waits, failed_in, nproc, semaphore>>
    /\ UNCHANGED <<store, events, unflushed, bulk_size, kafka_size>>
    /\ UNCHANGED <<store0, stats0, prev, written, budget, reapplied>>
    /\ UNCHANGED <<parserVars, callVars>>
    /\ UNCHANGED <<kafkaVars, serveVars>>

\* a slip of the sequence: the extraction is left out
download_file_NoExtract ==
    /\ pc = "downloading"
    /\ attempt' = attempt + 1
    /\ \E outcome \in DownloadOutcomes :
          /\ dl_log' = Append(dl_log, outcome)
          /\ IF outcome = "ok"
             THEN /\ pc' = "processing"
                  /\ UNCHANGED <<waits, failed_in, stats>>
             ELSE IF retry_if_exception_type(outcome) /\ ~stop_after_attempt(attempt + 1)
                  THEN /\ waits' = Append(waits, wait_exponential(attempt + 1))
                       /\ UNCHANGED <<pc, failed_in, stats>>
                  ELSE /\ RunEnds("downloading")
                       /\ UNCHANGED waits
    /\ UNCHANGED <<nproc, semaphore>>
    /\ UNCHANGED <<store, events, unflushed, bulk_size, kafka_size>>
    /\ UNCHANGED <<parserVars, callVars, histVars>>
    /\ UNCHANGED <<kafkaVars, serveVars, tallyVars>>

\* one attempt of download_file under the retry decorator
download_file ==
    /\ pc = "downloading"
    /\ attempt' = attempt + 1
    /\ \E outcome \in DownloadOutcomes :
          /\ dl_log' = Append(dl_log, outcome)
          /\ IF outcome = "ok"
             THEN /\ pc' = "extracting"
                  /\ UNCHANGED <<waits, failed_in, stats>>
             ELSE IF retry_if_exception_type(outcome) /\ ~stop_after_attempt(attempt + 1)
                  THEN /\ waits' = Append(waits, wait_exponential(attempt + 1))
                       /\ UNCHANGED <<pc, failed_in, stats>>
                  ELSE /\ RunEnds("downloading")
                       /\ UNCHANGED waits
    /\ UNCHANGED <<nproc, semaphore>>
    /\ UNCHANGED <<store, events, unflushed, bulk_size, kafka_size>>
    /\ UNCHANGED <<parserVars, callVars, histVars>>
    /\ UNCHANGED <<kafkaVars, serveVars, tallyVars>>

\* extract_zip returns the extracted file or raises on a corrupt archive
extract_zip ==
    /\ pc = "extracting"
    /\ \/ /\ pc' = "processing"
          /\ UNCHANGED <<failed_in, stats>>
       \/ RunEnds("extracting")
    /\ UNCHANGED <<attempt, dl_log, waits, nproc, semaphore>>
    /\ UNCHANGED <<store, events, unflushed, bulk_size, kafka_size>>
    /\ UNCHANGED <<parserVars, callVars, histVars>>
    /\ UNCHANGED <<kafkaVars, serveVars, tallyVars>>

\* `async for batch in parse_cpes_from_cve_json_in_batches(...)`: the loop
\* asks the generator for its next batch
PullBatch ==
    /\ pc = "processing"
    /\ cpc = "idle"
    /\ nproc = Len(yielded)
    /\ ParseNext

\* `await process_batch(batch)`: `async with semaphore` takes a slot and the
\* body enters bulk_create_or_update_cpes with the batch just yielded
process_batch ==
    /\ pc = "processing"
    /\ nproc < Len(yielded)
    /\ semaphore > 0
    /\ semaphore' = semaphore - 1
    /\ CallStart(yielded[nproc + 1])
    /\ UNCHANGED <<storeVars, prev, written, nfail, budget, reapplied>>
    /\ UNCHANGED <<pc, attempt, dl_log, waits, failed_in, nproc>>
    /\ UNCHANGED parserVars
    /\ UNCHANGED <<kafkaVars, serveVars, tallyVars>>

\* the steps of the running call
InCall ==
    /\ pc = "processing"
    /\ CallNext

\* process_batch returns: `async with` gives the slot back and the loop goes
\* on to the next batch
BatchReturns ==
    /\ pc = "processing"
    /\ cpc = "returned"
    /\ cpc' = "idle"
    /\ semaphore' = semaphore + 1
    /\ nproc' = nproc + 1
    /\ prev' = [cpes |-> cpes, ok |-> TRUE]
    /\ UNCHANGED <<pc, attempt, dl_log, waits, failed_in>>
    /\ UNCHANGED <<storeVars, cpes, cidx, created_cpes, updated_cpes, ksent>>
    /\ UNCHANGED <<store0, stats0, written, nfail, budget, reapplied>>
    /\ UNCHANGED parserVars
    /\ UNCHANGED <<kafkaVars, serveVars, tallyVars>>

\* a slip of the section: the slot is given back only on a normal return
BatchRaises_NoRelease ==
    /\ pc = "processing"
    /\ cpc = "raised"
    /\ cpc' = "idle"
    /\ UNCHANGED semaphore
    /\ prev' = [cpes |-> cpes, ok |-> FALSE]
    /\ RunEnds("processing")
    /\ UNCHANGED <<attempt, dl_log, waits, nproc>>
    /\ UNCHANGED <<store, events, unflushed, bulk_size, kafka_size>>
    /\ UNCHANGED <<cpes, cidx, created_cpes, updated_cpes, ksent>>
    /\ UNCHANGED <<store0, stats0, written, nfail, budget, reapplied>>
    /\ UNCHANGED parserVars
    /\ UNCHANGED <<kafkaVars, serveVars, tallyVars>>

\* process_batch raises: `async with` gives the slot back,
\* process_recent_cpes_in_batches and update_recent_cpes log and re-raise,
\* record_stats ends the run
BatchRaises ==
    /\ pc = "processing"
    /\ cpc = "raised"
    /\ cpc' = "idle"
    /\ semaphore' = semaphore + 1
    /\ prev' = [cpes |-> cpes, ok |-> FALSE]
    /\ RunEnds("processing")
    /\ UNCHANGED <<attempt, dl_log, waits, nproc>>
    /\ UNCHANGED <<store, events, unflushed, bulk_size, kafka_size>>
    /\ UNCHANGED <<cpes, cidx, created_cpes, updated_cpes, ksent>>
    /\ UNCHANGED <<store0, stats0, written, nfail, budget, reapplied>>
    /\ UNCHANGED parserVars
    /\ UNCHANGED <<kafkaVars, serveVars, tallyVars>>

\* the generator is exhausted: "Finished processing all CPE batches",
\* update_recent_cpes returns and record_stats ends the run
RunCompletes ==
    /\ pc = "processing"
    /\ cpc = "idle"
    /\ ppc \in {"done", "error"}
    /\ nproc = Len(yielded)
    /\ RunEnds("none")
    /\ UNCHANGED <<attempt, dl_log, waits, nproc, semaphore>>
    /\ UNCHANGED <<store, events, unflushed, bulk_size, kafka_size>>
    /\ UNCHANGED <<parserVars, callVars, histVars>>
    /\ UNCHANGED <<kafkaVars, serveVars, tallyVars>>

\* KafkaProducer.flush_periodically, the background task: every interval
\* poll(0) and flush(0) serve the delivery reports that are ready, without
\* waiting for the others
flush_periodically ==
    /\ unflushed > 0
    /\ \E d \in 1..unflushed : \E rs \in ReportSeqs(d) :
          /\ reports' = delivery_report(reports, rs)
          /\ unflushed' = unflushed - d
    /\ UNCHANGED <<store, stats, events, bulk_size, kafka_size>>
    /\ UNCHANGED <<parserVars, callVars, histVars, runVars>>
    /\ UNCHANGED <<broker, serveVars, tallyVars>>

RunNext ==
    \/ RunStart
    \/ reset_stats
    \/ download_file
    \/ extract_zip
    \/ PullBatch
    \/ process_batch
    \/ InCall
    \/ BatchReturns
    \/ BatchRaises
    \/ RunCompletes
    \/ flush_periodically

SpecRun ==
    RunInit /\ [][RunNext]_vars

-----------------------------------------------------------------------------
(* The request handlers and their background tasks: endpoints.py:129-156. *)
(* Every run is followed through its phases only; all runs share crud.stats *)

\* number of POST requests whose background tasks are pending at one time
MaxRequests ==
    2

\* the runs a request adds as background tasks, in order: update_cpes for
\* POST /all, update_recent_cpes("recent") and ("modified") for POST /recent
AllTasks ==
    <<"all">>

RecentTasks ==
    <<"recent", "modified">>

\* the phases of a run between its reset_stats and its completion
InFlight ==
    {"downloading", "extracting", "processing"}

\* the records a run may write in the states explored
MaxWork ==
    1

\* what a run has added to the counters since its own reset
ZeroWork ==
    [inserted |-> 0, updated |-> 0]

\* s without its i-th element
Remove(s, i) ==
    SubSeq(s, 1, i - 1) \o SubSeq(s, i + 1, Len(s))

\* what the steps of a background task leave alone
ServeFrame ==
    /\ UNCHANGED <<store, events, unflushed, bulk_size, kafka_size>>
    /\ UNCHANGED <<parserVars, callVars, histVars, runVars, kafkaVars, tallyVars>>

\* background_tasks.add_task(...) for each run of ts, when the token is the
\* VERIFICATION_TOKEN; otherwise {"error": "Invalid request"} and no task
add_task(ts) ==
    /\ Len(requests) < MaxRequests
    /\ \E token_ok \in BOOLEAN :
          requests' = IF token_ok
                      THEN Append(requests, [tasks |-> ts, pc |-> "queued", work |-> ZeroWork])
                      ELSE requests
    /\ UNCHANGED stats
    /\ ServeFrame

\* POST /all
update_cpes_endpoint ==
    add_task(AllTasks)

\* POST /recent
update_recent_cpes_endpoint ==
    add_task(RecentTasks)

\* the response is sent and the next background task of the request is
\* awaited: record_stats.wrapper takes the start time
TaskStart(i) ==
    /\ requests[i].pc = "queued"
    /\ requests' = [requests EXCEPT ![i].pc = "started"]
    /\ UNCHANGED stats
    /\ ServeFrame

\* download_and_extract: await reset_stats() rebinds the shared dict
TaskReset(i) ==
    /\ requests[i].pc = "started"
    /\ requests' = [requests EXCEPT ![i].pc = "downloading", ![i].work = ZeroWork]
    /\ stats' = InitialStats
    /\ ServeFrame

\* the requests once the current run of request i has ended
Ended(i) ==
    IF Len(requests[i].tasks) = 1
    THEN Remove(requests, i)
    ELSE [requests EXCEPT ![i] = [tasks |-> Tail(@.tasks), pc |-> "queued",
                                  work |-> ZeroWork]]

\* the run ends, by a return or by an exception that record_stats.wrapper
\* logs: last_called and durations are written, and the request goes on to
\* its next background task or is finished
TaskEnds(i) ==
    /\ stats' = [stats EXCEPT !.last_called = <<"start time">>,
                              !.durations = <<"duration">>]
    /\ requests' = Ended(i)

\* download_file returns or raises
TaskDownload(i) ==
    /\ requests[i].pc = "downloading"
    /\ \/ /\ requests' = [requests EXCEPT ![i].pc = "extracting"]
          /\ UNCHANGED stats
       \/ TaskEnds(i)
    /\ ServeFrame

\* extract_zip returns or raises
TaskExtract(i) ==
    /\ requests[i].pc = "extracting"
    /\ \/ /\ requests' = [requests EXCEPT ![i].pc = "processing"]
          /\ UNCHANGED stats
       \/ TaskEnds(i)
    /\ ServeFrame

\* a bulk operation of the run returns with one record classified created or
\* updated: execute_bulk_write adds it to the counter of the shared dict
TaskBatch(i) ==
    /\ requests[i].pc = "processing"
    /\ requests[i].work.inserted + requests[i].work.updated < MaxWork
    /\ \E key \in {"inserted", "updated"} :
          /\ stats' = [stats EXCEPT ![key] = @ + 1]
          /\ requests' = [requests EXCEPT ![i].work[key] = @ + 1]
    /\ ServeFrame

\* the processing loop returns or raises
TaskProcess(i) ==
    /\ requests[i].pc = "processing"
    /\ TaskEnds(i)
    /\ ServeFrame

ServeInit ==
    /\ StoreStart
    /\ store = <<>>
    /\ bulk_size = 1
    /\ kafka_size = 1
    /\ budget = 0
    /\ reapplied = FALSE
    /\ broker = "up"
    /\ variant = "json"
    /\ feed = <<>>
    /\ B = 1
    /\ pos = 0
    /\ batch = <<>>
    /\ yielded = <<>>
    /\ ppc = "done"
    /\ RunIdle

ServeNext ==
    \/ update_cpes_endpoint
    \/ update_recent_cpes_endpoint
    \/ \E i \in 1..Len(requests) : TaskStart(i)
    \/ \E i \in 1..Len(requests) : TaskReset(i)
    \/ \E i \in 1..Len(requests) : TaskDownload(i)
    \/ \E i \in 1..Len(requests) : TaskExtract(i)
    \/ \E i \in 1..Len(requests) : TaskBatch(i)
    \/ \E i \in 1..Len(requests) : TaskProcess(i)

SpecServe ==
    ServeInit /\ [][ServeNext]_vars

-----------------------------------------------------------------------------
(* Properties of the streaming parsers *)

\* the records of the entries among the first n that normalize, in file order
NormalizedUpTo(n) ==
    LET es == Entries(variant, feed)
        ix == SelectSeq([i \in 1..n |-> i], LAMBDA i : ~Skipped(es[i]))
    IN  [k \in 1..Len(ix) |-> CPECreate(es[ix[k]], NewId(ix[k]))]

IsPrefix(s, t) ==
    /\ Len(s) <= Len(t)
    /\ \A i \in 1..Len(s) : s[i] = t[i]

\* every yielded batch is non-empty and of at most B records, and every batch
\* but the last has exactly B
BatchShape ==
    /\ \A i \in 1..Len(yielded) : Len(yielded[i]) >= 1 /\ Len(yielded[i]) <= B
    /\ \A i \in 1..(Len(yielded) - 1) : Len(yielded[i]) = B

\* C1 as stated: for every feed file and batch size, the yielded batches are
\* non-empty, of at most B records, all but the last of exactly B, and once
\* the generator has ended their concatenation is the sequence of the entries
\* it normalized, in file order: no record lost, duplicated or reordered.
C1_EveryFileComplete ==
    /\ BatchShape
    /\ ppc \in {"done", "error"} => Flatten(yielded) = NormalizedUpTo(pos)

\* C1 amended: the batch shape holds always and no record is duplicated or
\* reordered; the concatenation equals the normalized entries of the whole
\* file when the file was streamed to its end; when the reader raised, every
\* yielded batch has exactly B records and the concatenation is a prefix of
\* the entries normalized so far, short of it by fewer than B records (the
\* partial batch is dropped).
C1_Batches ==
    /\ BatchShape
    /\ ppc = "run" => Flatten(yielded) \o batch = NormalizedUpTo(pos)
    /\ ppc = "done" => /\ pos = Len(Entries(variant, feed))
                       /\ Flatten(yielded) = NormalizedUpTo(pos)
    /\ ppc = "error" => /\ \A i \in 1..Len(yielded) : Len(yielded[i]) = B
                        /\ IsPrefix(Flatten(yielded), NormalizedUpTo(pos))
                        /\ Len(NormalizedUpTo(pos)) - Len(Flatten(yielded)) < B

\* a file streamed to its end whose last batch is a partial one
C1_Witness ==
    /\ ppc = "done"
    /\ B = 2
    /\ Len(yielded) = 2
    /\ Len(yielded[2]) = 1
    /\ Len(Entries(variant, feed)) = 3

\* the positions of the entries whose records were handed out or are pending
Kept ==
    LET rs == Flatten(yielded) \o batch IN {rs[k].cpe_id : k \in 1..Len(rs)}

\* C2: an entry with a missing, empty or unparsable identifier is skipped
\* without ending the sequence (the parser keeps running and neither the
\* current batch nor the yielded batches change), it contributes no record,
\* every valid entry read is kept and, at the end of the file, yielded; the
\* feed of one valid 'a' identifier and one empty identifier yields exactly
\* one batch of one record of type software.
C2_SkipContinues ==
    /\ [][(pos' = pos + 1 /\ Skipped(Entries(variant, feed)[pos + 1]))
            => (ppc' = "run" /\ batch' = batch /\ yielded' = yielded)]_vars
    /\ [](ppc = "run" =>
            Kept = {NewId(i) : i \in {j \in 1..pos : ~Skipped(Entries(variant, feed)[j])}})
    /\ [](ppc = "done" =>
            {r.cpe_id : r \in {Flatten(yielded)[k] : k \in 1..Len(Flatten(yielded))}} =
            {NewId(i) : i \in {j \in 1..Len(Entries(variant, feed)) :
                                   ~Skipped(Entries(variant, feed)[j])}})
    /\ []((/\ ppc = "done"
           /\ Entries(variant, feed) \in {<<Uri("a"), EmptyUri>>, <<EmptyUri, Uri("a")>>})
          => (/\ Len(yielded) = 1
              /\ Len(yielded[1]) = 1
              /\ yielded[1][1].type = "software"))

\* a skipped entry followed by a valid one, whose record was yielded
C2_Witness ==
    /\ ppc = "done"
    /\ \E i, j \in 1..Len(Entries(variant, feed)) :
          /\ i < j
          /\ Skipped(Entries(variant, feed)[i])
          /\ ~Skipped(Entries(variant, feed)[j])
          /\ \E k \in 1..Len(yielded) : \E m \in 1..Len(yielded[k]) :
                yielded[k][m].cpe_id = NewId(j)

-----------------------------------------------------------------------------
(* Properties of the store and of the change events *)

\* a document named like the j-th record of the running call existed when
\* the upsert of that record was applied: in the store at the start of the
\* call, or written by an earlier record of the call
ExistedBefore(j) ==
    \/ Matches(store0, cpes[j].cpe_name)
    \/ \E i \in 1..(j - 1) : cpes[i].cpe_name = cpes[j].cpe_name

\* C3 as stated: every record of a batch passed to the store is in exactly
\* one of the created and the updated list when the call ends, created iff no
\* document of its name existed when its upsert was applied.
C3_EveryRecordClassified ==
    cpc \in {"returned", "raised"} =>
        /\ created_cpes = Pick(cpes, {j \in 1..Len(cpes) : ~ExistedBefore(j)})
        /\ updated_cpes = Pick(cpes, {j \in 1..Len(cpes) : ExistedBefore(j)})

\* C3 amended: the records of the bulk operations that returned a result
\* (the first cidx records of the batch) are each in exactly one list, in
\* input order, created iff no document of that name existed when the upsert
\* was applied, also when the batch is cut into several bulk operations; the
\* records of a bulk operation that raised are in neither list.
C3_Classification ==
    cpc # "idle" =>
        /\ created_cpes = Pick(cpes, {j \in 1..cidx : ~ExistedBefore(j)})
        /\ updated_cpes = Pick(cpes, {j \in 1..cidx : ExistedBefore(j)})
        /\ Len(created_cpes) + Len(updated_cpes) = cidx

\* a batch cut into several bulk operations, on a store that is not empty,
\* with records of both classes
C3_Witness ==
    /\ cpc = "returned"
    /\ bulk_size < Len(cpes)
    /\ store0 # <<>>
    /\ created_cpes # <<>>
    /\ updated_cpes # <<>>

\* C4: when the batch of a call that returned is applied again, the second
\* call classifies every record as updated and none as created, raises the
\* inserted counter by 0 and the updated counter by the size of the batch,
\* and leaves the store as it found it.
C4_Idempotent ==
    (cpc = "returned" /\ prev.ok /\ prev.cpes = cpes) =>
        /\ created_cpes = <<>>
        /\ updated_cpes = cpes
        /\ stats.inserted = stats0.inserted
        /\ stats.updated = stats0.updated + Len(cpes)
        /\ store = store0

\* a batch with two different records of one name, applied a second time
C4_Witness ==
    /\ cpc = "returned"
    /\ reapplied
    /\ \E i, j \in 1..Len(cpes) :
          /\ i < j
          /\ cpes[i].cpe_name = cpes[j].cpe_name
          /\ cpes[i] # cpes[j]

UniqueNames(st) ==
    \A i, j \in 1..Len(st) : st[i].cpe_name = st[j].cpe_name => i = j

\* C5: the store never holds two documents of one name; when a call has
\* returned, every name of its batch has exactly one document, equal to the
\* last record of that name in the batch.
C5_UniqueLastWins ==
    /\ UniqueNames(store)
    /\ cpc = "returned" =>
          \A j \in 1..Len(cpes) :
              (\A k \in (j + 1)..Len(cpes) : cpes[k].cpe_name # cpes[j].cpe_name) =>
                  /\ Cardinality({i \in 1..Len(store) : store[i].cpe_name = cpes[j].cpe_name}) = 1
                  /\ \E i \in 1..Len(store) : store[i] = cpes[j]

\* a batch with two different records of one name, the name being in the
\* store already
C5_Witness ==
    /\ cpc = "returned"
    /\ \E i, j \in 1..Len(cpes) :
          /\ i < j
          /\ cpes[i].cpe_name = cpes[j].cpe_name
          /\ cpes[i] # cpes[j]
          /\ Matches(store0, cpes[i].cpe_name)
          /\ \E d \in 1..Len(store0) : store0[d] # cpes[j] /\ store0[d].cpe_name = cpes[j].cpe_name

Names(cs) ==
    {cs[i].cpe_name : i \in 1..Len(cs)}

\* C6 as stated: on an empty store a batch is classified with one created
\* entry per distinct name and nothing updated (3 records, 2 of one name:
\* created of size 2, updated empty).
C6_NoUpdatesOnEmptyStore ==
    (cpc = "returned" /\ store0 = <<>>) =>
        /\ Len(created_cpes) = Cardinality(Names(cpes))
        /\ updated_cpes = <<>>

\* C6 amended: on an empty store the created list holds one entry per
\* distinct name, the first record of that name, and every later record of a
\* name is classified updated (3 records, 2 of one name: created of size 2,
\* updated of size 1).
C6_FirstCreatedRestUpdated ==
    (cpc = "returned" /\ store0 = <<>>) =>
        /\ Len(created_cpes) = Cardinality(Names(cpes))
        /\ Names(created_cpes) = Names(cpes)
        /\ Len(updated_cpes) = Len(cpes) - Cardinality(Names(cpes))
        /\ created_cpes = Pick(cpes, {j \in 1..Len(cpes) :
                                        \A i \in 1..(j - 1) : cpes[i].cpe_name # cpes[j].cpe_name})
        /\ (Len(cpes) = 3 /\ Cardinality(Names(cpes)) = 2) =>
              (Len(created_cpes) = 2 /\ Len(updated_cpes) = 1)

\* the scenario: empty store, 3 records, 2 of them of one name
C6_Witness ==
    /\ cpc = "returned"
    /\ store0 = <<>>
    /\ Len(cpes) = 3
    /\ Cardinality(Names(cpes)) = 2
    /\ Len(updated_cpes) = 1

Count(s, x) ==
    Cardinality({i \in 1..Len(s) : s[i] = x})

\* C7 as stated: when a call has ended, every record the store created or
\* overwrote has exactly one event of the matching topic, keyed by its name,
\* and there is no other event; also for the records a failed bulk
\* operation had applied.
C7_EveryWriteHasEvent ==
    cpc \in {"idle", "returned", "raised"} =>
        /\ \A i \in 1..Len(written) : Count(events, written[i]) = Count(written, written[i])
        /\ \A i \in 1..Len(events) : Count(written, events[i]) = Count(events, events[i])

\* C10 as stated: a bulk write that raises is absorbed in execute_bulk_write:
\* the errors counter goes up by exactly 1 and no exception leaves the call,
\* so the errors counter equals the number of failed bulk writes.
C10_FailureAbsorbed ==
    /\ [][nfail' = nfail + 1 => (stats'.errors = stats.errors + 1 /\ cpc' # "raised")]_vars
    /\ [](nfail > 0 => stats.errors = nfail)

-----------------------------------------------------------------------------
(* Properties of the download and of the run *)

FourFailuresThenSuccess ==
    <<"ClientError", "ClientError", "ClientError", "ClientError", "ok">>

FiveFailures ==
    <<"ClientError", "ClientError", "ClientError", "ClientError", "ClientError">>

\* C8: download_file makes at most 5 attempts; every attempt but the last
\* one made ended with an aiohttp.ClientError; an attempt that ends with
\* another exception is the last and ends the run in the download phase;
\* after 4 ClientErrors and a success the download has succeeded, the run
\* goes on, and it ends with the errors counter at 0.
C8_Retry ==
    /\ attempt = Len(dl_log)
    /\ attempt <= 5
    /\ \A i \in 1..(Len(dl_log) - 1) : dl_log[i] = "ClientError"
    /\ (dl_log # <<>> /\ dl_log[Len(dl_log)] = "Exception") =>
          (pc = "done" /\ failed_in = "downloading")
    /\ dl_log = FourFailuresThenSuccess =>
          /\ pc \in {"extracting", "processing", "done"}
          /\ failed_in # "downloading"
          /\ stats.errors = 0

\* a run that ended normally after the download succeeded at the 5th attempt
C8_Witness ==
    /\ dl_log = FourFailuresThenSuccess
    /\ pc = "done"
    /\ failed_in = "none"
    /\ written # <<>>
    /\ stats.errors = 0

\* C9 as stated: after 5 failed download attempts the run has ended in the
\* download phase, the errors counter is nonzero, and nothing was written
\* to the store and no event was emitted.
C9_ErrorsReflectFailure ==
    dl_log = FiveFailures =>
        /\ pc = "done"
        /\ failed_in = "downloading"
        /\ stats.errors > 0
        /\ written = <<>>
        /\ events = <<>>

\* C9 amended: after 5 failed download attempts the run has ended in the
\* download phase, nothing was written to the store and no event was
\* emitted, and the failure is only logged: the counters inserted, updated
\* and errors are 0, last_called and durations are set.
C9_AbortInDownload ==
    dl_log = FiveFailures =>
        /\ pc = "done"
        /\ failed_in = "downloading"
        /\ stats.errors = 0
        /\ stats.inserted = 0
        /\ stats.updated = 0
        /\ stats.last_called # None
        /\ stats.durations # None
        /\ written = <<>>
        /\ events = <<>>
        /\ store \in {<<>>, <<CPECreate(Uri("a"), 0)>>}
        /\ yielded = <<>>
        /\ cpc = "idle"

\* a run whose download failed 5 times, on a store that holds a document
C9_Witness ==
    /\ dl_log = FiveFailures
    /\ pc = "done"
    /\ failed_in = "downloading"
    /\ store # <<>>
    /\ Len(waits) = 4

-----------------------------------------------------------------------------
(* Properties of the processing loop *)

\* C11 as stated: an exception raised while one batch is processed (by the
\* store apply or by the event publishing) is caught and counted in the
\* errors counter and does not end the run: no exception leaves the
\* processing of a batch, the run never ends in the processing phase, every
\* failed bulk write is counted, and a run that got past the extraction ends
\* only when the parser is exhausted and every batch it yielded was processed.
C11_BatchFailureIsolated ==
    /\ cpc # "raised"
    /\ failed_in # "processing"
    /\ stats.errors >= nfail
    /\ (pc = "done" /\ failed_in \notin {"downloading", "extracting"}) =>
          (ppc # "run" /\ nproc = Len(yielded))

\* C12 as stated: when the reader raises while the feed is streamed (the file
\* is of no supported shape), the error reaches the orchestrator: the run
\* ends as a failure of the processing phase, it does not complete as if the
\* file had ended.
C12_StructuralErrorAborts ==
    (ppc = "error" /\ pc = "done") => failed_in = "processing"

-----------------------------------------------------------------------------
(* Properties of the request handlers *)

\* the requests whose current run is of variant v and in flight
RunsInFlight(v) ==
    {i \in 1..Len(requests) : requests[i].tasks[1] = v /\ requests[i].pc \in InFlight}

\* C13 as stated: for any sequence of POST /all and POST /recent requests,
\* at most one run per feed variant is between its stats reset and its
\* completion.
C13_OneRunPerVariant ==
    \A v \in {"all", "recent", "modified"} : Cardinality(RunsInFlight(v)) <= 1

\* C23 as stated: for any interleaving of the runs of POST /all and of POST
\* /recent, when a run completes the inserted and updated counters equal the
\* work done by that run since its own reset: a reset performed by another
\* run never discards the counts of a run in flight, and the counts of two
\* runs are never mixed.
C23_CountersOfThisRun ==
    [][\A i \in 1..Len(requests) :
          (requests[i].pc \in InFlight /\ requests' = Ended(i)) =>
              /\ stats'.inserted = requests[i].work.inserted
              /\ stats'.updated = requests[i].work.updated]_vars

-----------------------------------------------------------------------------
(* Properties of the run entry point and of the record type *)

\* C14: a failure of the download, the extraction or the processing ends the
\* run inside record_stats.wrapper, which returns: the run is never left by
\* an exception, and whenever a run has ended, with or without a failure,
\* last_called and durations hold the start time and the duration of the run.
C14_RunEndsRecorded ==
    /\ pc \in {"idle", "started", "downloading", "extracting", "processing", "done"}
    /\ failed_in # "none" => pc = "done"
    /\ pc = "done" => /\ stats.last_called = <<"start time">>
                      /\ stats.durations = <<"duration">>

\* a run ended by a failure of its processing, after records were written
C14_Witness ==
    /\ pc = "done"
    /\ failed_in = "processing"
    /\ written # <<>>
    /\ stats.last_called # None
    /\ stats.durations # None

\* the type the part attribute stands for
TypeOfPart(part) ==
    CASE part = "a" -> "software"
      [] part = "o" -> "operating_system"
      [] part = "h" -> "hardware"
      [] OTHER -> "other"

\* C15: the type of every record either parser builds is decided by the part
\* attribute of its identifier alone: software for 'a', operating_system for
\* 'o', hardware for 'h', other for every other part value, the same for the
\* XML and for the JSON feed.
C15_TypeFromPart ==
    LET rs == Flatten(yielded) \o batch
    IN  \A k \in 1..Len(rs) :
            /\ rs[k].part = Entries(variant, feed)[rs[k].cpe_id][3]
            /\ rs[k].type = TypeOfPart(rs[k].part)

\* the JSON parser has yielded a hardware record and a record of another part
C15_Witness ==
    /\ variant = "json"
    /\ ppc = "done"
    /\ \E i, j \in 1..Len(Flatten(yielded)) :
          /\ Flatten(yielded)[i].type = "hardware"
          /\ Flatten(yielded)[j].type = "other"
          /\ Flatten(yielded)[j].part = "*"

-----------------------------------------------------------------------------
(* Properties of the phases of a run and of its worker slots *)

\* the steps of the phase of a run: forward by one, or to the end on a failure
PhaseSteps ==
    {<<"idle", "started">>, <<"started", "downloading">>,
     <<"downloading", "extracting">>, <<"extracting", "processing">>,
     <<"processing", "done">>, <<"downloading", "done">>, <<"extracting", "done">>}

\* C16: a run goes through stats reset, download, extraction, processing and
\* done in this order; the stats are reset before the first download attempt;
\* the store is written and events are emitted only in the processing phase,
\* which is entered only after a download attempt succeeded and the
\* extraction returned.
C16_PhaseOrder ==
    /\ [][pc' # pc => <<pc, pc'>> \in PhaseSteps]_vars
    /\ [][(pc = "started" /\ pc' # pc) => stats' = InitialStats]_vars
    /\ [][attempt' # attempt => (pc = "downloading" /\ stats.last_called = None)]_vars
    /\ [][(store' # store \/ events' # events \/ written' # written) => pc = "processing"]_vars
    /\ [](pc = "processing" => (dl_log # <<>> /\ dl_log[Len(dl_log)] = "ok"))
    /\ []((written # <<>> \/ events # <<>>) =>
            (pc \in {"processing", "done"} /\ failed_in \in {"none", "processing"}))

\* a run that went through every phase, wrote to the store and emitted events
C16_Witness ==
    /\ pc = "done"
    /\ failed_in = "none"
    /\ Len(dl_log) > 1
    /\ written # <<>>
    /\ events # <<>>

\* the batches inside the section guarded by the semaphore
InSection ==
    IF cpc = "idle" THEN 0 ELSE 1

\* C17: at most 10 batches of a run are inside the section guarded by the
\* semaphore, the slots taken are those of the batches inside, and the slot
\* of a batch is given back when the batch finishes, by a return or by an
\* exception: a run that has ended holds no slot.
C17_SemaphoreBound ==
    /\ InSection <= 10
    /\ semaphore >= 0
    /\ SemaphoreValue - semaphore = InSection
    /\ pc = "done" => semaphore = SemaphoreValue

\* a run in which one batch returned and a later one raised
C17_Witness ==
    /\ pc = "done"
    /\ failed_in = "processing"
    /\ nproc >= 1
    /\ semaphore = SemaphoreValue

\* C18 as stated: the batches are fanned out to the worker pool: while a
\* batch of the run is inside the section, a slot is free and the parser has
\* not ended, the loop can take the next batch from the parser, so that more
\* than one batch (up to 10) is in flight at a time.
C18_FanOut ==
    (pc = "processing" /\ InSection = 1 /\ semaphore > 0 /\ ppc = "run") =>
        ENABLED PullBatch

-----------------------------------------------------------------------------
(* Properties of the event emission *)

\* the messages the running call has produced so far: the created records
\* first, then the updated ones, each in list order
Produced ==
    add_messages(add_messages(<<>>, "cpe.extract.created", SubSeq(created_cpes, 1, ksent[1])),
                 "cpe.extract.updated", SubSeq(updated_cpes, 1, ksent[2]))

\* C19: the events of a batch are produced only after every bulk write of
\* the batch has returned; the created and the updated list are produced in
\* consecutive sub-batches of at most kafka_size (default 100) events; the
\* flush of a sub-batch has returned before the next one is produced, so the
\* call never has more than kafka_size produced and unflushed events; every
\* created event of a batch is produced before its first updated event.
C19_EmissionDiscipline ==
    /\ [][events' # events => (/\ cpc = "produce"
                               /\ cidx = Len(cpes)
                               /\ unflushed = 0
                               /\ Len(events') - Len(events) \in 1..kafka_size)]_vars
    /\ [][store' # store => (cpc = "bulk" /\ ksent = <<0, 0>>)]_vars
    /\ [](unflushed <= kafka_size)
    /\ [](cpc # "idle" =>
            /\ ksent[2] > 0 => ksent[1] = Len(created_cpes)
            /\ Len(events) >= Len(Produced)
            /\ SubSeq(events, Len(events) - Len(Produced) + 1, Len(events)) = Produced)
    /\ [](cpc = "returned" => (/\ ksent = <<Len(created_cpes), Len(updated_cpes)>>
                               /\ unflushed = 0))

\* a call that has flushed its created events and produced an updated one
C19_Witness ==
    /\ cpc = "flush"
    /\ ksent[1] = Len(created_cpes)
    /\ ksent[1] > 0
    /\ ksent[2] > 0
    /\ unflushed > 0

-----------------------------------------------------------------------------
(* Properties of the waits between the download attempts *)

\* C21 as stated: the wait after the failed attempt k is min(4 * 2^(k-1), 10),
\* a base delay of 4 that doubles up to the cap of 10 (4, 8, 10, 10); every
\* wait lies in 4..10 and the waits never decrease.
C21_DoublingFromFour ==
    /\ \A k \in 1..Len(waits) : waits[k] = Min2(4 * Pow2(k - 1), 10)
    /\ \A k \in 1..Len(waits) : waits[k] \in 4..10
    /\ \A k \in 1..(Len(waits) - 1) : waits[k] <= waits[k + 1]

\* C21 amended: the wait after the failed attempt k is 2^(k-1) raised to the
\* minimum of 4 and cut at the maximum of 10, that is 4, 4, 4, 8 for
\* k = 1..4; there is one wait after every failed attempt that is retried,
\* every wait lies in 4..10 and the waits never decrease.
C21_ClampedExponential ==
    /\ \A k \in 1..Len(waits) : waits[k] = Max2(4, Min2(Pow2(k - 1), 10))
    /\ IsPrefix(waits, <<4, 4, 4, 8>>)
    /\ Len(waits) = Cardinality({k \in 1..Len(dl_log) : dl_log[k] = "ClientError" /\ k < 5})
    /\ \A k \in 1..Len(waits) : waits[k] \in 4..10
    /\ \A k \in 1..(Len(waits) - 1) : waits[k] <= waits[k + 1]

\* the download succeeded at its 5th attempt, after the waits 4, 4, 4, 8
C21_Witness ==
    /\ dl_log = FourFailuresThenSuccess
    /\ waits = <<4, 4, 4, 8>>
    /\ pc = "extracting"

-----------------------------------------------------------------------------
(* Properties of the counters *)

\* the number of events produced on a topic
Produced_On(topic) ==
    Cardinality({i \in 1..Len(events) : events[i].topic = topic})

\* the counters against the records classified and the bulk operations that
\* returned since the reset
CountersExact ==
    /\ stats.inserted = tally.created
    /\ stats.updated = tally.updated
    /\ stats.inserted + stats.updated = tally.ok

====
